---- MODULE Spec2Model ----
(***************************************************************************)
(* The container image resource of terraform-provider-containerregistry:   *)
(* the lifecycle operations Create / Read / Update / Delete / ImportState  *)
(* (internal/resources/compose/resource.go), the build-and-push sequence   *)
(* (internal/resources/image/docker_push.go), the registry inspection      *)
(* getImageInfoFromRegistry, the registry deletion                         *)
(* deleteFromDockerRegistry and the credential resolution getAuthConfig.   *)
(*                                                                         *)
(* The tracked resource record (the Terraform state of one resource), the  *)
(* registry and the outcome of the last operation are the state.  The      *)
(* external collaborators (build toolchain, secret store, registry HTTP    *)
(* responses) are inputs of each operation, drawn from small sets.         *)
(***************************************************************************)
EXTENDS Integers, Sequences, FiniteSets, TLC

VARIABLES state, registry, last

vars == <<state, registry, last>>

(***************************************************************************)
(* Bounds of the model.                                                    *)
(***************************************************************************)
\* longest manifests array of an OCI image index the inspection is run on
MaxManifests == 2

(***************************************************************************)
(* Values of the Terraform plugin framework: types.String and types.Map    *)
(* are null, unknown or known.                                             *)
(***************************************************************************)
NullString == "<null>"
UnknownString == "<unknown>"

EmptyMap == [k \in {} |-> ""]
NullMap == [null |-> TRUE, elems |-> EmptyMap]
MapValue(m) == [null |-> FALSE, elems |-> m]

\* the label maps of the model
L1 == [k \in {"k1"} |-> "a"]
LE == [k \in {"k2"} |-> "c"]
L3 == [k \in {"k1", "k2"} |-> IF k = "k1" THEN "a" ELSE "c"]
L9 == [k \in {"k1"} |-> "b"]
T1 == [k \in {"sourcehash"} |-> "h1"]

\* m overlaid on base: keys of m win
Merge(base, m) ==
    [k \in DOMAIN base \cup DOMAIN m |-> IF k \in DOMAIN m THEN m[k] ELSE base[k]]

(***************************************************************************)
(* Image references.  reference.ParseAnyReference and the type switches    *)
(* on its result, over the references of the model.                        *)
(***************************************************************************)
TagURI == "registry.example/app:v1"
DigestURI == "registry.example/app@sha256:p1"
BareURI == "registry.example/app"
BadURI == "registry.example/APP:v1"

\* (err, named, tag, digest) of reference.ParseAnyReference: an upper-case
\* repository name is no reference; a familiar name gets no default tag.
ParseAnyReference(uri) ==
    CASE uri = TagURI    -> [err |-> FALSE, tag |-> "v1", digest |-> ""]
      [] uri = DigestURI -> [err |-> FALSE, tag |-> "", digest |-> "sha256:p1"]
      [] uri = BareURI   -> [err |-> FALSE, tag |-> "", digest |-> ""]
      [] OTHER           -> [err |-> TRUE, tag |-> "", digest |-> ""]

\* the parse and the tag-or-digest switch shared by the inspection and the
\* deletion: the error ("" for none) and the manifest reference
ParseReference(uri) ==
    LET ref == ParseAnyReference(uri) IN
    IF ref.err THEN [err |-> "invalid image URI format", tag |-> "", digest |-> ""]
    ELSE IF ref.tag # "" THEN [err |-> "", tag |-> ref.tag, digest |-> ""]
    ELSE IF ref.digest # "" THEN [err |-> "", tag |-> "", digest |-> ref.digest]
    ELSE [err |-> "image reference must have a tag or digest", tag |-> "", digest |-> ""]

(***************************************************************************)
(* Credentials.  Strings that are split or joined are sequences of         *)
(* characters.                                                             *)
(***************************************************************************)
NullChars == <<"<null>">>
NoAuthConfig == [nil |-> TRUE, Username |-> <<>>, Password |-> <<>>]
AuthConfig(u, p) == [nil |-> FALSE, Username |-> u, Password |-> p]

\* model.Auth: nil, or the three optional blocks
NoBlock == [present |-> FALSE, username |-> NullChars, password |-> NullChars,
            aws_secrets_manager |-> NullChars, google_secret_manager |-> NullChars]
AuthNil == [nil |-> TRUE, username_password |-> NoBlock,
            aws_ecr |-> FALSE, google_artifact_registry |-> FALSE]
AuthLiteral ==
    [nil |-> FALSE,
     username_password |-> [present |-> TRUE, username |-> <<"u">>, password |-> <<"p">>,
                            aws_secrets_manager |-> NullChars,
                            google_secret_manager |-> NullChars],
     aws_ecr |-> FALSE, google_artifact_registry |-> FALSE]
AuthSecret ==
    [nil |-> FALSE,
     username_password |-> [present |-> TRUE, username |-> NullChars, password |-> NullChars,
                            aws_secrets_manager |-> <<"a", "r", "n">>,
                            google_secret_manager |-> NullChars],
     aws_ecr |-> FALSE, google_artifact_registry |-> FALSE]

\* base64.StdEncoding of a character string, kept as the encoding's name and
\* the bytes it encodes
StdEncoding(s) == <<"base64", s>>

\* base64.StdEncoding.DecodeString: only what StdEncoding made decodes
DecodeString(t) ==
    IF Len(t) = 2 /\ t[1] = "base64" THEN [err |-> FALSE, bytes |-> t[2]]
    ELSE [err |-> TRUE, bytes |-> <<>>]

\* the external credential sources, and what one answers: a failure, no
\* data at all, or a payload
Sources == {"aws_secrets_manager", "google_secret_manager", "aws_ecr",
            "google_artifact_registry"}
SourceFailure == [kind |-> "failure", payload |-> <<>>]
SourceEmpty == [kind |-> "empty", payload |-> <<>>]
SourcePayload(s) == [kind |-> "payload", payload |-> s]

\* index of the first ':' of s, 0 if there is none
RECURSIVE FirstColon(_, _)
FirstColon(s, i) ==
    IF i > Len(s) THEN 0
    ELSE IF s[i] = ":" THEN i
    ELSE FirstColon(s, i + 1)

Quote == "\""
Backslash == "\\"
CharAt(s, i) == IF i \in 1..Len(s) THEN s[i] ELSE ""

\* index of the quote that closes the JSON string whose first character is
\* at i, 0 if the string is not closed
RECURSIVE JSONStringEnd(_, _)
JSONStringEnd(s, i) ==
    IF i > Len(s) THEN 0
    ELSE IF s[i] = Quote THEN i
    ELSE IF s[i] = Backslash /\ CharAt(s, i + 1) \notin {Quote, Backslash} THEN 0
    ELSE JSONStringEnd(s, IF s[i] = Backslash THEN i + 2 ELSE i + 1)

\* the characters a JSON string body stands for
RECURSIVE Unquote(_)
Unquote(s) ==
    IF s = <<>> THEN <<>>
    ELSE LET escaped == s[1] = Backslash IN
         <<IF escaped THEN s[2] ELSE s[1]>>
             \o Unquote(SubSeq(s, IF escaped THEN 3 ELSE 2, Len(s)))

UsernameKey == <<"u", "s", "e", "r", "n", "a", "m", "e">>
PasswordKey == <<"p", "a", "s", "s", "w", "o", "r", "d">>
JSONError == [err |-> TRUE, Username |-> <<>>, Password |-> <<>>]

\* the members of a JSON object from position i on, each "key":"string";
\* a key seen twice keeps its last value and other keys are skipped
RECURSIVE JSONMembers(_, _, _)

WithMember(creds, key, val) ==
    IF key = UsernameKey THEN [creds EXCEPT !.Username = val]
    ELSE IF key = PasswordKey THEN [creds EXCEPT !.Password = val]
    ELSE creds

\* after a member: the end of the object or the next member
MemberNext(s, valEnd, creds) ==
    IF CharAt(s, valEnd + 1) = "}" /\ valEnd + 1 = Len(s) THEN creds
    ELSE IF CharAt(s, valEnd + 1) = "," THEN JSONMembers(s, valEnd + 2, creds)
    ELSE JSONError

\* the value of the member whose key ends at keyEnd
MemberValue(s, i, keyEnd, valEnd, creds) ==
    IF valEnd = 0 THEN JSONError
    ELSE MemberNext(s, valEnd, WithMember(creds, Unquote(SubSeq(s, i + 1, keyEnd - 1)),
                                          Unquote(SubSeq(s, keyEnd + 3, valEnd - 1))))

\* the key of the member at i, the colon and the quote that opens the value
MemberKey(s, i, keyEnd, creds) ==
    IF keyEnd = 0 \/ CharAt(s, keyEnd + 1) # ":" \/ CharAt(s, keyEnd + 2) # Quote
    THEN JSONError
    ELSE MemberValue(s, i, keyEnd, JSONStringEnd(s, keyEnd + 3), creds)

JSONMembers(s, i, creds) ==
    IF CharAt(s, i) # Quote THEN JSONError
    ELSE MemberKey(s, i, JSONStringEnd(s, i + 1), creds)

\* json.Unmarshal into the struct of the two string fields; the payloads of
\* the model carry no white space and no value that is not a string
Unmarshal(s) ==
    LET none == [err |-> FALSE, Username |-> <<>>, Password |-> <<>>] IN
    IF CharAt(s, 1) # "{" THEN JSONError
    ELSE IF s = <<"{", "}">> THEN none
    ELSE JSONMembers(s, 2, none)

\* a split at the last ':' of s
parseColonFormAtLastColon(s) ==
    LET colons == {i \in 1..Len(s) : s[i] = ":"}
        c == IF colons = {} THEN 0 ELSE CHOOSE i \in colons : \A j \in colons : j <= i
    IN IF c = 0 \/ c = 1 \/ c = Len(s) THEN [err |-> TRUE, cfg |-> NoAuthConfig]
       ELSE [err |-> FALSE, cfg |-> AuthConfig(SubSeq(s, 1, c - 1), SubSeq(s, c + 1, Len(s)))]

\* the "username:password" form alone
parseColonForm(s) ==
    LET c == FirstColon(s, 1) IN
    IF c = 0 THEN [err |-> TRUE, cfg |-> NoAuthConfig]
    ELSE LET username == SubSeq(s, 1, c - 1)
             password == SubSeq(s, c + 1, Len(s))
         IN IF username # <<>> /\ password # <<>>
            THEN [err |-> FALSE, cfg |-> AuthConfig(username, password)]
            ELSE [err |-> TRUE, cfg |-> NoAuthConfig]

\* the JSON form first, the "username:password" form when it does not apply
parseCredentialsString(s) ==
    LET jsonCreds == Unmarshal(s) IN
    IF ~jsonCreds.err /\ jsonCreds.Username # <<>> /\ jsonCreds.Password # <<>>
    THEN [err |-> FALSE, cfg |-> AuthConfig(jsonCreds.Username, jsonCreds.Password)]
    ELSE parseColonForm(s)

\* the result of a resolution: consulted lists the sources it called
Resolved(parsed, consulted) ==
    [err |-> parsed.err, cfg |-> parsed.cfg, consulted |-> consulted]
ResolveError(consulted) == [err |-> TRUE, cfg |-> NoAuthConfig, consulted |-> consulted]

\* a secret's SecretString, absent when the store returns no data
getAWSSecretsManagerAuth(answers) ==
    LET answer == answers["aws_secrets_manager"] IN
    IF answer.kind = "failure" THEN ResolveError(<<"aws_secrets_manager">>)
    ELSE Resolved(parseCredentialsString(answer.payload), <<"aws_secrets_manager">>)

getGoogleSecretManagerAuth(answers) ==
    LET answer == answers["google_secret_manager"] IN
    IF answer.kind = "failure" THEN ResolveError(<<"google_secret_manager">>)
    ELSE Resolved(parseCredentialsString(answer.payload), <<"google_secret_manager">>)

\* the authorization token is the base64 of "username:password"
getAWSECRAuth(answers) ==
    LET answer == answers["aws_ecr"]
        decodedToken == DecodeString(answer.payload)
    IN IF answer.kind \in {"failure", "empty"} THEN ResolveError(<<"aws_ecr">>)
       ELSE IF decodedToken.err THEN ResolveError(<<"aws_ecr">>)
       ELSE Resolved(parseCredentialsString(decodedToken.bytes), <<"aws_ecr">>)

getGoogleArtifactRegistryAuth(answers) ==
    LET answer == answers["google_artifact_registry"] IN
    IF answer.kind = "failure" THEN ResolveError(<<"google_artifact_registry">>)
    ELSE [err |-> FALSE, cfg |-> AuthConfig(<<"oauth2accesstoken">>, answer.payload),
          consulted |-> <<"google_artifact_registry">>]

Known(s) == s # NullChars /\ s # <<>>

\* an error of the block that falls through to the later variants
getUsernamePasswordAuthFallingThrough(block, answers) ==
    IF Known(block.username) /\ Known(block.password)
    THEN [err |-> FALSE, cfg |-> AuthConfig(block.username, block.password),
          consulted |-> <<>>]
    ELSE LET aws == getAWSSecretsManagerAuth(answers)
             google == getGoogleSecretManagerAuth(answers)
         IN IF Known(block.aws_secrets_manager) /\ ~aws.err THEN aws
            ELSE IF Known(block.aws_secrets_manager) /\ Known(block.google_secret_manager)
            THEN [google EXCEPT !.consulted = aws.consulted \o google.consulted]
            ELSE IF Known(block.aws_secrets_manager) THEN aws
            ELSE IF Known(block.google_secret_manager) THEN google
            ELSE ResolveError(<<>>)

getUsernamePasswordAuth(block, answers) ==
    IF Known(block.username) /\ Known(block.password)
    THEN [err |-> FALSE, cfg |-> AuthConfig(block.username, block.password),
          consulted |-> <<>>]
    ELSE IF Known(block.aws_secrets_manager) THEN getAWSSecretsManagerAuth(answers)
    ELSE IF Known(block.google_secret_manager) THEN getGoogleSecretManagerAuth(answers)
    ELSE ResolveError(<<>>)

\* a resolution that answers an error with no credential and no error
getAuthConfigAnonymousOnError(auth, answers) ==
    LET result == IF auth.nil THEN ResolveError(<<>>)
                  ELSE IF auth.username_password.present
                  THEN getUsernamePasswordAuth(auth.username_password, answers)
                  ELSE IF auth.aws_ecr THEN getAWSECRAuth(answers)
                  ELSE IF auth.google_artifact_registry
                  THEN getGoogleArtifactRegistryAuth(answers)
                  ELSE ResolveError(<<>>)
    IN IF result.err THEN [result EXCEPT !.err = FALSE] ELSE result

\* answers: what each external source returns when it is called
getAuthConfig(auth, answers) ==
    IF auth.nil THEN [err |-> FALSE, cfg |-> NoAuthConfig, consulted |-> <<>>]
    ELSE IF auth.username_password.present
    THEN getUsernamePasswordAuth(auth.username_password, answers)
    ELSE IF auth.aws_ecr THEN getAWSECRAuth(answers)
    ELSE IF auth.google_artifact_registry THEN getGoogleArtifactRegistryAuth(answers)
    ELSE [err |-> FALSE, cfg |-> NoAuthConfig, consulted |-> <<>>]

\* the Authorization header value: <<>> is no header
GetHTTPAuthHeader(cfg) ==
    IF cfg.nil THEN <<>>
    ELSE <<"Basic ", StdEncoding(cfg.Username \o <<":">> \o cfg.Password)>>

(***************************************************************************)
(* The registry: manifests are content addressed, so a digest determines   *)
(* the document.  One repository with the tag v1.                          *)
(***************************************************************************)
IndexMediaType == "application/vnd.oci.image.index.v1+json"
ManifestMediaType == "application/vnd.oci.image.manifest.v1+json"
AttestationType == "attestation-manifest"

NoManifest == [digest |-> "", mediaType |-> "", config |-> "", manifests |-> <<>>]
Entry(d, t) == [digest |-> d, refType |-> t]

\* the image manifest of an image whose config blob is c
PlainManifest(d, c) ==
    [digest |-> d, mediaType |-> ManifestMediaType, config |-> c, manifests |-> <<>>]
IndexManifest(d, entries) ==
    [digest |-> d, mediaType |-> IndexMediaType, config |-> "", manifests |-> entries]

\* the manifest a digest names ("sha256:a1" is an attestation manifest)
ManifestOf(d) ==
    CASE d = "sha256:p0" -> PlainManifest(d, "sha256:c0")
      [] d = "sha256:p1" -> PlainManifest(d, "sha256:c1")
      [] d = "sha256:pe" -> PlainManifest(d, "sha256:ce")
      [] d = "sha256:p3" -> PlainManifest(d, "sha256:c3")
      [] d = "sha256:p9" -> PlainManifest(d, "sha256:c9")
      [] d = "sha256:a1" -> PlainManifest(d, "sha256:ca")
      [] d = "sha256:x1" -> IndexManifest(d, <<Entry("sha256:a1", AttestationType),
                                               Entry("sha256:p3", "")>>)
      [] OTHER -> NoManifest

\* config.Labels of the config blob a digest names: null when the image has
\* no labels
ConfigLabels(c) ==
    CASE c = "sha256:c1" -> MapValue(L1)
      [] c = "sha256:ce" -> MapValue(LE)
      [] c = "sha256:c3" -> MapValue(L3)
      [] c = "sha256:c9" -> MapValue(L9)
      [] OTHER -> NullMap

\* the image the build toolchain produces and pushes for a label map
ImageWithLabels(m) ==
    CASE m = L1 -> "sha256:p1"
      [] m = LE -> "sha256:pe"
      [] m = L3 -> "sha256:p3"
      [] OTHER -> "sha256:p0"

IsIndex(doc) == doc.mediaType = IndexMediaType
Children(doc) == {doc.manifests[i].digest : i \in 1..Len(doc.manifests)}

\* the manifest the registry serves for a tag or digest, NoManifest if none:
\* the tagged manifest, of an index its children, and the manifests no tag
\* leads to any more that the registry has not collected yet (untagged)
Lookup(reg, ref) ==
    IF ref = "" THEN NoManifest
    ELSE IF ref = "v1" \/ ref = reg.tagged.digest THEN reg.tagged
    ELSE IF ref \in Children(reg.tagged) THEN ManifestOf(ref)
    ELSE IF ref \in reg.untagged THEN ManifestOf(ref)
    ELSE NoManifest

\* the registry after a push of doc to the tag, the manifest the tag led to
\* collected at once (Pushed) or kept untagged (PushedKeeping), and after a
\* DELETE of digest d
Pushed(reg, doc) == [reg EXCEPT !.tagged = doc, !.untagged = @ \ {doc.digest}]
PushedKeeping(reg, doc) ==
    [reg EXCEPT !.tagged = doc,
                !.untagged = (@ \cup {reg.tagged.digest}) \ {"", doc.digest}]
Deleted(reg, d) ==
    [reg EXCEPT !.tagged = IF @.digest = d THEN NoManifest ELSE @,
                !.untagged = @ \ {d}]

(***************************************************************************)
(* One HTTP exchange.  A fault names the request of the operation that     *)
(* goes wrong and how: "net" is a transport failure (no response, also a   *)
(* cancelled context), "body" a 200 response whose body does not decode,   *)
(* the others are status codes.  Without a fault the registry answers 200  *)
(* for what it holds and 404 for what it does not.                         *)
(***************************************************************************)
NoFault == [at |-> "none", status |-> "200"]
HTTPFaults ==
    [at : {"manifest", "delete"}, status : {"net", "401", "404", "500", "body"}]
        \cup [at : {"inner"}, status : {"net", "401", "404", "500", "body"}]
        \cup [at : {"config"}, status : {"net", "404", "body"}]
\* the other collaborators: the build, the push (which fails, "net", or is
\* refused by the registry with the refusal written into its response
\* stream, "stream"), and the credential source
\* of the first ("source") and of the second ("source2") resolution of an
\* operation, which fails ("net") or returns a payload that is no credential
ToolFaults ==
    [at : {"build", "push"}, status : {"net"}]
        \cup [at : {"push"}, status : {"stream"}]
        \cup [at : {"source", "source2"}, status : {"net", "body"}]
Faults == {NoFault} \cup HTTPFaults \cup ToolFaults

\* the faults that can touch an operation: the others leave it as NoFault does
FetchFaults ==
    {f \in Faults : f.at \in {"none", "source", "manifest", "inner", "config"}}
BuildFaults ==
    {f \in Faults : f.at \in {"none", "build", "push", "source", "source2",
                               "manifest", "config"}}
DeleteFaults ==
    {f \in Faults : f.at \in {"none", "source", "manifest", "delete"}}

\* without an auth block no credential source is called, and its faults
\* touch nothing
Touching(faults, auth) ==
    {f \in faults : auth.nil => f.at \notin {"source", "source2"}}

\* what the credential sources of a resolution answer under a fault
Answer(fault, at) ==
    [source \in Sources |->
        IF fault.at # at
        THEN SourcePayload(IF source = "aws_ecr" THEN StdEncoding(<<"u", ":", "p">>)
                           ELSE <<"u", ":", "p">>)
        ELSE IF fault.status = "net" THEN SourceFailure
        ELSE SourcePayload(<<"x">>)]

Status(fault, at, found) ==
    IF fault.at = at THEN fault.status
    ELSE IF found THEN "200" ELSE "404"

Event(kind, target, header) == [kind |-> kind, target |-> target, auth |-> header]
Step(kind) == Event(kind, "", <<>>)
\* a push response that carries the registry's refusal
PushRefused == Event("push response", "errorDetail", <<>>)
\* a credential resolution that returned an error
ResolveFailed == Event("resolve", "error", <<>>)

(***************************************************************************)
(* getImageInfoFromRegistry                                                *)
(***************************************************************************)
NoInfo == [labels |-> EmptyMap, digest |-> "", manifest_digest |-> ""]
Failed(e, tr) == [err |-> e, info |-> NoInfo, trace |-> tr]

\* a selection that takes the first entry whatever its annotation
SelectManifestUnfiltered(manifests, i) ==
    IF i > Len(manifests) THEN "" ELSE manifests[i].digest

\* the first manifest of an index that is not an attestation manifest: the
\* loop's selectedDigest, "" when it selects nothing
RECURSIVE SelectManifest(_, _)
SelectManifest(manifests, i) ==
    IF i > Len(manifests) THEN ""
    ELSE IF manifests[i].refType = AttestationType THEN SelectManifest(manifests, i + 1)
    ELSE manifests[i].digest

\* the result map: labels of the config blob (an empty map for none), the
\* config digest and the Docker-Content-Digest header of the top-level response
ImageInfo(configLabels, configDigest, contentDigest) ==
    [labels |-> IF configLabels.null THEN EmptyMap ELSE configLabels.elems,
     digest |-> configDigest,
     manifest_digest |-> contentDigest]

\* a config blob request that goes out without the Authorization header
FetchConfigAnonymous(fault, header, contentDigest, manifest, tr) ==
    LET trace == Append(tr, Event("GET blob", manifest.config, <<>>))
        status == Status(fault, "config", manifest.config # "")
    IN IF status = "net" THEN Failed("failed to get config", trace)
       ELSE IF status \notin {"200", "body"} THEN Failed("failed to get config, status", trace)
       ELSE IF status = "body" THEN Failed("failed to decode config blob", trace)
       ELSE [err |-> "",
             info |-> ImageInfo(ConfigLabels(manifest.config), manifest.config, contentDigest),
             trace |-> trace]

\* the config blob request and the result
FetchConfig(fault, header, contentDigest, manifest, tr) ==
    LET trace == Append(tr, Event("GET blob", manifest.config, header))
        status == Status(fault, "config", manifest.config # "")
    IN IF status = "net" THEN Failed("failed to get config", trace)
       ELSE IF status \notin {"200", "body"} THEN Failed("failed to get config, status", trace)
       ELSE IF status = "body" THEN Failed("failed to decode config blob", trace)
       ELSE [err |-> "",
             info |-> ImageInfo(ConfigLabels(manifest.config), manifest.config, contentDigest),
             trace |-> trace]

\* the OCI image index branch: select, fetch the selected manifest, go on
\* with its config
FetchSelected(reg, fault, header, contentDigest, index, tr) ==
    LET selectedDigest == SelectManifest(index.manifests, 1)
        trace == Append(tr, Event("GET manifest", selectedDigest, header))
        actual == Lookup(reg, selectedDigest)
        status == Status(fault, "inner", actual # NoManifest)
    IN IF selectedDigest = "" THEN Failed("no suitable manifest found in OCI Image Index", tr)
       ELSE IF status = "net" THEN Failed("failed to get actual manifest", trace)
       ELSE IF status \notin {"200", "body"}
            THEN Failed("failed to get actual manifest, status", trace)
       ELSE IF status = "body" THEN Failed("failed to decode actual manifest", trace)
       ELSE FetchConfig(fault, header, contentDigest, actual, trace)

\* answer: what the credential source returns; fault: the HTTP fault
getImageInfoFromRegistry(model, reg, answer, fault) ==
    LET ref == ParseReference(model.image_uri)
        auth == getAuthConfig(model.auth, answer)
        header == GetHTTPAuthHeader(auth.cfg)
        target == IF ref.digest # "" THEN ref.digest ELSE ref.tag
        manifest == Lookup(reg, target)
        status == Status(fault, "manifest", manifest # NoManifest)
        contentDigest == IF reg.digestHeader THEN manifest.digest ELSE ""
        resolved == <<Step("resolve")>>
        trace == Append(resolved, Event("GET manifest", target, header))
    IN IF ref.err # "" THEN Failed(ref.err, <<>>)
       ELSE IF auth.err
            THEN Failed("failed to get authentication configuration", <<ResolveFailed>>)
       ELSE IF status = "net" THEN Failed("failed to get manifest", trace)
       ELSE IF status = "404" THEN Failed("image not found", trace)
       ELSE IF status = "401" THEN Failed("authentication failed for registry", trace)
       ELSE IF status \notin {"200", "body"} THEN Failed("failed to get manifest, status", trace)
       ELSE IF status = "body" THEN Failed("failed to decode manifest", trace)
       ELSE IF IsIndex(manifest)
            THEN FetchSelected(reg, fault, header, contentDigest, manifest, trace)
       ELSE FetchConfig(fault, header, contentDigest, manifest, trace)

(***************************************************************************)
(* deleteImageFromRegistry / deleteFromDockerRegistry                      *)
(***************************************************************************)
DeleteFailed(e, reg, tr) == [err |-> e, registry |-> reg, trace |-> tr]

\* a DELETE that removes whatever the tag leads to when it arrives
DeleteManifestOfTag(reg, fault, header, digest, tr) ==
    [err |-> "", registry |-> [reg EXCEPT !.tagged = NoManifest],
     trace |-> Append(tr, Event("DELETE manifest", digest, header))]

\* the DELETE request on a digest and the check of its response
DeleteManifest(reg, fault, header, digest, tr) ==
    LET trace == Append(tr, Event("DELETE manifest", digest, header))
        held == Lookup(reg, digest) # NoManifest
        status == IF fault.at = "delete" THEN fault.status
                  ELSE IF held THEN "202" ELSE "404"
    IN IF status = "net" THEN DeleteFailed("failed to execute DELETE request", reg, trace)
       ELSE IF status = "401"
            THEN DeleteFailed("authentication failed for registry", reg, trace)
       ELSE IF status \notin {"202", "200", "body"}
            THEN DeleteFailed("failed to delete image, status", reg, trace)
       ELSE [err |-> "", registry |-> Deleted(reg, digest), trace |-> trace]

\* a deletion that addresses the DELETE to the reference as it is given, the
\* tag included, without resolving it
deleteFromDockerRegistryByReference(ref, cfg, reg, fault) ==
    IF ref.err # "" THEN DeleteFailed(ref.err, reg, <<Step("resolve")>>)
    ELSE DeleteManifest(reg, fault, GetHTTPAuthHeader(cfg),
                        IF ref.digest # "" THEN ref.digest ELSE ref.tag, <<Step("resolve")>>)

\* the GET that resolves the tag: the digest it yields, from the
\* Docker-Content-Digest header or else from config.digest of the body
TagDigest(tag, cfg, reg, fault) ==
    LET trace == <<Step("resolve"), Event("GET manifest", tag, GetHTTPAuthHeader(cfg))>>
        manifest == Lookup(reg, tag)
        status == Status(fault, "manifest", manifest # NoManifest)
        contentDigest == IF reg.digestHeader THEN manifest.digest ELSE ""
        digest == IF contentDigest # "" THEN contentDigest ELSE manifest.config
    IN IF status = "net" THEN [err |-> "failed to get manifest", digest |-> "", trace |-> trace]
       ELSE IF status = "401"
            THEN [err |-> "authentication failed for registry", digest |-> "", trace |-> trace]
       ELSE IF status \notin {"200", "body"}
            THEN [err |-> "failed to get manifest, status", digest |-> "", trace |-> trace]
       ELSE IF status = "body" /\ contentDigest = ""
            THEN [err |-> "failed to decode manifest", digest |-> "", trace |-> trace]
       ELSE IF digest = ""
            THEN [err |-> "could not determine digest for tag", digest |-> "", trace |-> trace]
       ELSE [err |-> "", digest |-> digest, trace |-> trace]

\* the DELETE that follows the GET of a tag, if the GET yielded a digest
DeleteResolved(got, cfg, reg, fault) ==
    IF got.err # "" THEN DeleteFailed(got.err, reg, got.trace)
    ELSE DeleteManifest(reg, fault, GetHTTPAuthHeader(cfg), got.digest, got.trace)

deleteFromDockerRegistry(ref, cfg, reg, fault) ==
    IF ref.err # "" THEN DeleteFailed(ref.err, reg, <<Step("resolve")>>)
    ELSE IF ref.digest # ""
         THEN DeleteManifest(reg, fault, GetHTTPAuthHeader(cfg), ref.digest, <<Step("resolve")>>)
    ELSE DeleteResolved(TagDigest(ref.tag, cfg, reg, fault), cfg, reg, fault)

deleteImageFromRegistry(model, reg, fault) ==
    LET parsed == ParseAnyReference(model.image_uri)
        auth == getAuthConfig(model.auth, Answer(fault, "source"))
    IN IF parsed.err THEN DeleteFailed("invalid image URI format", reg, <<>>)
       ELSE IF auth.err
            THEN DeleteFailed("failed to get authentication configuration", reg,
                              <<ResolveFailed>>)
       ELSE deleteFromDockerRegistry(ParseReference(model.image_uri), auth.cfg, reg, fault)

(***************************************************************************)
(* The resource record (ImageResourceModel / ComposeResourceModel) and the *)
(* build-and-push sequence.                                                *)
(***************************************************************************)
Absent ==
    [present |-> FALSE, id |-> NullString, image_uri |-> NullString, build |-> NullString,
     labels |-> NullMap, triggers |-> NullMap, delete_image |-> FALSE, auth |-> AuthNil,
     sha256_digest |-> NullString]

\* build specifications: two that parse and one that is no JSON
Build1 == "{\"context\":\".\"}"
Build2 == "{\"context\":\".\",\"dockerfile\":\"Dockerfile.app\"}"
BadBuild == "{"

parseBuildSpec(model) ==
    IF model.build = "" THEN "build specification is empty"
    ELSE IF model.build \notin {Build1, Build2} THEN "invalid JSON in build specification"
    ELSE ""

extractLabels(model) ==
    IF model.labels.null THEN EmptyMap ELSE model.labels.elems

\* the registry-auth blob of the push: base64.URLEncoding of the JSON of the
\* credential, "" without a credential
GetEncodedAuthConfig(cfg) ==
    IF cfg.nil THEN <<>> ELSE <<"base64url", <<cfg.Username, cfg.Password>>>>

\* the toolchain tags and pushes tag references only; a bare name goes to
\* its default tag, which no reference of the model addresses
Pushable(uri) ==
    LET ref == ParseAnyReference(uri) IN ~ref.err /\ ref.digest = ""

\* the image built from the Dockerfile (whose own labels are dockerfile) with
\* the labels of the model
BuiltImage(model, dockerfile) ==
    ManifestOf(ImageWithLabels(Merge(dockerfile, extractLabels(model))))

\* the registry after a successful push of the built image
AfterPush(model, reg, dockerfile) ==
    IF ParseAnyReference(model.image_uri).tag # ""
    THEN Pushed(reg, BuiltImage(model, dockerfile))
    ELSE reg

\* a digest branch with the priority reversed
WithDigestConfigFirst(model, info) ==
    IF info.digest # "" THEN [model EXCEPT !.sha256_digest = info.digest]
    ELSE IF info.manifest_digest # ""
    THEN [model EXCEPT !.sha256_digest = info.manifest_digest]
    ELSE model

\* the digest branch shared by buildAndPushImage and Read: the manifest
\* digest first, the config digest as the fallback, else no change
WithDigest(model, info) ==
    IF info.manifest_digest # "" THEN [model EXCEPT !.sha256_digest = info.manifest_digest]
    ELSE IF info.digest # "" THEN [model EXCEPT !.sha256_digest = info.digest]
    ELSE model

BuildResult(e, model, reg, tr, fe) ==
    [err |-> e, model |-> model, registry |-> reg, trace |-> tr, fetchErr |-> fe]

\* a digest fetch whose failure fails the operation
DigestFetchedOrFail(model, reg, tr, fetch) ==
    BuildResult(IF fetch.err # "" THEN "failed to get image digest" ELSE "",
                IF fetch.err = "" THEN WithDigest(model, fetch.info) ELSE model,
                reg, tr \o fetch.trace, fetch.err)

\* the digest fetch after the push: its failure is logged and the model is
\* left as it is
DigestFetched(model, reg, tr, fetch) ==
    BuildResult("", IF fetch.err = "" THEN WithDigest(model, fetch.info) ELSE model,
                reg, tr \o fetch.trace, fetch.err)

\* fetchErr: "-" when the digest fetch did not run, "" when it succeeded
buildAndPushImage(model, reg, fault, dockerfile) ==
    LET parseErr == parseBuildSpec(model)
        auth == getAuthConfig(model.auth, Answer(fault, "source"))
        built == <<Step("parse"), Step("build")>>
        resolved == Append(built, Step("resolve"))
        pushed == Append(resolved, Event("push", model.image_uri,
                                         GetEncodedAuthConfig(auth.cfg)))
        refused == fault.at = "push" /\ fault.status = "stream"
        after == IF refused THEN reg ELSE AfterPush(model, reg, dockerfile)
        fetch == getImageInfoFromRegistry(model, after, Answer(fault, "source2"), fault)
    IN IF parseErr # ""
       THEN BuildResult("failed to parse build specification", model, reg,
                        <<Step("parse")>>, "-")
       ELSE IF fault.at = "build" \/ ~Pushable(model.image_uri)
       THEN BuildResult("failed to build Docker image", model, reg, built, "-")
       ELSE IF auth.err
       THEN BuildResult("failed to push Docker image", model, reg,
                        Append(built, ResolveFailed), "-")
       ELSE IF fault.at = "push" /\ fault.status = "net"
       THEN BuildResult("failed to push Docker image", model, reg, pushed, "-")
       ELSE DigestFetched(model, after, IF refused THEN Append(pushed, PushRefused) ELSE pushed,
                          fetch)

(***************************************************************************)
(* The lifecycle operations.  last is the outcome of the operation just    *)
(* run: its diagnostics, the error of its helper, and the steps and        *)
(* requests it made.                                                       *)
(***************************************************************************)
Outcome(op, errors, warnings, e, fe, tr) ==
    [op |-> op, errors |-> errors, warnings |-> warnings, err |-> e,
     fetchErr |-> fe, trace |-> tr]

\* the values the engine plans: the configuration, with the computed
\* attributes unknown
Plan(uri, build, labels, triggers, delete_image, auth) ==
    [present |-> TRUE, id |-> UnknownString, image_uri |-> uri, build |-> build,
     labels |-> labels, triggers |-> triggers, delete_image |-> delete_image,
     auth |-> auth, sha256_digest |-> UnknownString]

\* the configurations applied: a base, one that differs from it in one
\* attribute each, and the two build specifications that do not parse
Plans(uri) ==
    {Plan(uri, Build1, MapValue(L1), MapValue(T1), FALSE, AuthNil),
     Plan(uri, Build2, MapValue(L1), MapValue(T1), FALSE, AuthNil),
     Plan(uri, Build1, NullMap, MapValue(T1), FALSE, AuthNil),
     Plan(uri, Build1, MapValue(L1), NullMap, FALSE, AuthNil),
     Plan(uri, Build1, MapValue(L1), MapValue(T1), TRUE, AuthNil),
     Plan(uri, Build1, MapValue(L1), MapValue(T1), TRUE, AuthSecret),
     Plan(uri, "", MapValue(L1), MapValue(T1), FALSE, AuthNil),
     Plan(uri, BadBuild, MapValue(L1), MapValue(T1), FALSE, AuthNil)}

\* the Dockerfile's own labels
DockerfileLabels == {EmptyMap, LE}

\* the collaborators a build and push of a plan can meet: a fault and the
\* Dockerfile; a build specification that does not parse meets none
BuildInputs(plan) ==
    IF parseBuildSpec(plan) # "" THEN {<<NoFault, EmptyMap>>}
    ELSE Touching(BuildFaults, plan.auth) \X DockerfileLabels

\* Create: the state written, Absent when nothing is written
CreateState(plan, result) ==
    IF result.err # "" THEN Absent
    ELSE [result.model EXCEPT !.id = plan.image_uri]

CreateOutcome(result) ==
    Outcome("Create", IF result.err # "" THEN 1 ELSE 0, 0, result.err,
            result.fetchErr, result.trace)

Create ==
    /\ ~state.present
    /\ \E plan \in Plans(TagURI) : \E input \in BuildInputs(plan) :
          LET result == buildAndPushImage(plan, registry, input[1], input[2]) IN
          /\ state' = CreateState(plan, result)
          /\ registry' = result.registry
          /\ last' = CreateOutcome(result)

\* a label refresh that also takes an empty label map from the registry
WithLabelsAlways(model, info) ==
    [model EXCEPT !.labels = MapValue(info.labels)]

\* a label refresh that never takes the labels of the registry
WithLabelsNever(model, info) == model

\* the label refresh of Read: the labels of the registry replace the tracked
\* ones when there is at least one
WithLabels(model, info) ==
    IF Cardinality(DOMAIN info.labels) > 0
    THEN [model EXCEPT !.labels = MapValue(info.labels)]
    ELSE model

\* a Read that removes the resource only when the registry says the image is
\* not there or refuses the credential
ReadStateOnNotFound(model, fetch) ==
    IF fetch.err \in {"image not found", "authentication failed for registry"} THEN Absent
    ELSE IF fetch.err # "" THEN model
    ELSE WithDigest(WithLabels(model, fetch.info), fetch.info)

\* a Read that also sets the id to the image URI, as Create does
ReadStateSettingId(model, fetch) ==
    IF fetch.err # "" THEN Absent
    ELSE [WithDigest(WithLabels(model, fetch.info), fetch.info)
             EXCEPT !.id = model.image_uri]

\* Read: the state written by resp.State.Set, or removed
ReadState(model, fetch) ==
    IF fetch.err # "" THEN Absent
    ELSE WithDigest(WithLabels(model, fetch.info), fetch.info)

ReadOutcome(fetch) ==
    Outcome("Read", 0, 0, fetch.err, fetch.err, fetch.trace)

Read ==
    /\ state.present
    /\ \E fault \in Touching(FetchFaults, state.auth) :
          LET fetch == getImageInfoFromRegistry(state, registry, Answer(fault, "source"), fault)
          IN /\ state' = ReadState(state, fetch)
             /\ last' = ReadOutcome(fetch)
    /\ UNCHANGED registry

\* the engine plans an Update when the configuration differs from the prior
\* state in an attribute that does not require replacement: no attribute of
\* the schema carries a plan modifier that hides its change
PlanDiffers(config, prior) ==
    <<config.build, config.labels, config.triggers, config.delete_image, config.auth>>
        # <<prior.build, prior.labels, prior.triggers, prior.delete_image, prior.auth>>

\* a plan whose id is not taken from the prior state
PlannedUpdateUnknownId(config, prior) == config

\* the plan of an Update: the configuration, with the id of the prior state
\* (UseStateForUnknown)
PlannedUpdate(config, prior) == [config EXCEPT !.id = prior.id]

\* an Update that builds only when build, labels or image URI changed
UpdateResultIfImageChanged(plan, prior, reg, fault, dockerfile) ==
    IF \/ plan.build # prior.build
       \/ plan.labels # prior.labels
       \/ plan.image_uri # prior.image_uri
    THEN buildAndPushImage(plan, reg, fault, dockerfile)
    ELSE BuildResult("", [plan EXCEPT !.sha256_digest = prior.sha256_digest], reg, <<>>, "-")

\* Update: the build and push of the plan, whatever differs from the prior state
UpdateResult(plan, prior, reg, fault, dockerfile) ==
    buildAndPushImage(plan, reg, fault, dockerfile)

\* an Update that writes the plan whatever the result
UpdateStateAlways(prior, result) == result.model

\* Update: the prior state stays when the response carries an error
UpdateState(prior, result) ==
    IF result.err # "" THEN prior ELSE result.model

UpdateOutcome(result) ==
    Outcome("Update", IF result.err # "" THEN 1 ELSE 0, 0, result.err,
            result.fetchErr, result.trace)

Update ==
    /\ state.present
    /\ \E config \in {c \in Plans(state.image_uri) : PlanDiffers(c, state)} :
       \E input \in BuildInputs(config) :
          LET plan == PlannedUpdate(config, state)
              result == UpdateResult(plan, state, registry, input[1], input[2])
          IN /\ state' = UpdateState(state, result)
             /\ registry' = result.registry
             /\ last' = UpdateOutcome(result)

\* Delete: the deletion run when delete_image is set; the engine removes the
\* record when the response carries no error
NotDeleted(reg) == DeleteFailed("", reg, <<>>)

\* a Delete that runs the deletion whatever delete_image says
DeleteResultAlways(model, reg, fault) == deleteImageFromRegistry(model, reg, fault)

DeleteResult(model, reg, fault) ==
    IF model.delete_image THEN deleteImageFromRegistry(model, reg, fault)
    ELSE NotDeleted(reg)

\* a Delete that reports the failed deletion as an error
DeleteOutcomeAsError(model, result) ==
    Outcome("Delete", IF result.err # "" THEN 1 ELSE 0, 0, result.err, "-", result.trace)

DeleteOutcome(model, result) ==
    Outcome("Delete", 0, IF result.err # "" THEN 1 ELSE 0, result.err, "-", result.trace)

DeleteState(model, outcome) ==
    IF outcome.errors > 0 THEN model ELSE Absent

Delete ==
    /\ state.present
    /\ \E fault \in Touching(DeleteFaults, state.auth) :
          LET result == DeleteResult(state, registry, fault)
              outcome == DeleteOutcome(state, result)
          IN /\ state' = DeleteState(state, outcome)
             /\ registry' = result.registry
             /\ last' = outcome

\* ImportState: the three attributes set, the rest null
UUIDs == {"6ba7b810-9dad-11d1-80b4-00c04fd430c8"}

\* an import that keeps the identifier given as the id
ImportedStateWithGivenId(id, uuid) ==
    [Absent EXCEPT !.present = TRUE, !.image_uri = id, !.id = id, !.delete_image = FALSE]

ImportedState(id, uuid) ==
    [Absent EXCEPT !.present = TRUE, !.image_uri = id, !.id = uuid, !.delete_image = FALSE]

ImportState ==
    /\ ~state.present
    /\ \E id \in {TagURI, DigestURI, BadURI}, uuid \in UUIDs :
          /\ state' = ImportedState(id, uuid)
          /\ last' = Outcome("ImportState", 0, 0, "", "-", <<>>)
    /\ UNCHANGED registry

(***************************************************************************)
(* Other clients of the registry: a push to the tag, a deletion of the     *)
(* tagged manifest.                                                        *)
(***************************************************************************)
\* what they push: an image without labels, one with the labels the
\* configurations declare, one with another value, and an image index
Images == {"sha256:p0", "sha256:p1", "sha256:p9", "sha256:x1"}

ExternalPush ==
    /\ \E d \in Images :
          /\ d # registry.tagged.digest
          /\ registry' = Pushed(registry, ManifestOf(d))
    /\ last' = Outcome("ExternalPush", 0, 0, "", "-", <<>>)
    /\ UNCHANGED state

ExternalDelete ==
    /\ registry.tagged # NoManifest
    /\ registry' = Deleted(registry, registry.tagged.digest)
    /\ last' = Outcome("ExternalDelete", 0, 0, "", "-", <<>>)
    /\ UNCHANGED state

Init ==
    /\ state = Absent
    /\ registry \in [tagged : {NoManifest}, digestHeader : BOOLEAN, untagged : {{}}]
    /\ last = Outcome("Init", 0, 0, "", "-", <<>>)

Next ==
    \/ Create
    \/ Read
    \/ Update
    \/ Delete
    \/ ImportState
    \/ ExternalPush
    \/ ExternalDelete

Spec == Init /\ [][Next]_vars

(***************************************************************************)
(* The inspection on its own: the registry holds an OCI image index whose  *)
(* manifests array is any array of at most MaxManifests entries, and an    *)
(* imported resource is read.                                              *)
(***************************************************************************)
EntryPool ==
    {Entry(d, t) : d \in {"", "sha256:p1", "sha256:p3"},
                   t \in {"", AttestationType, "other"}}

ManifestLists == UNION {[1..k -> EntryPool] : k \in 0..MaxManifests}

InitInspect ==
    /\ \E uuid \in UUIDs : state = ImportedState(TagURI, uuid)
    /\ registry \in [tagged : {IndexManifest("sha256:xn", entries) : entries \in ManifestLists},
                     digestHeader : BOOLEAN, untagged : {{}}]
    /\ last = Outcome("Init", 0, 0, "", "-", <<>>)

SpecInspect == InitInspect /\ [][Read]_vars

(***************************************************************************)
(* resolveBuildArgs on its own.  A JSON value is nil, a string (a sequence *)
(* of characters) or a number; args is an array, a map or anything else.   *)
(* The environment is a function from the names that are set to their      *)
(* values.                                                                 *)
(***************************************************************************)
Nil == [kind |-> "nil", str |-> <<>>]
Str(s) == [kind |-> "string", str |-> s]
Num == [kind |-> "number", str |-> <<>>]

\* nil: a Go slice that was never appended to
ArrayArgs(items) == [form |-> "array", items |-> items, entries |-> <<>>, nil |-> FALSE]
NilArrayArgs == [form |-> "array", items |-> <<>>, entries |-> <<>>, nil |-> TRUE]
MapArgs(entries) == [form |-> "map", items |-> <<>>, entries |-> entries, nil |-> FALSE]
OtherArgs == [form |-> "other", items |-> <<>>, entries |-> <<>>, nil |-> FALSE]

\* os.LookupEnv
LookupEnv(env, name) ==
    IF name \in DOMAIN env THEN [ok |-> TRUE, val |-> env[name]]
    ELSE [ok |-> FALSE, val |-> <<>>]

\* strings.Contains(str, "=")
ContainsEquals(str) == \E i \in 1..Len(str) : str[i] = "="

\* an array entry that turns a key that is not set into "KEY="
ResolveItemEmptyWhenUnset(val, env) ==
    IF val.kind = "string" /\ ~ContainsEquals(val.str)
    THEN Str(val.str \o <<"=">> \o LookupEnv(env, val.str).val)
    ELSE val

\* one entry of the array form
ResolveItem(val, env) ==
    IF val.kind = "string"
    THEN IF ~ContainsEquals(val.str)
         THEN IF LookupEnv(env, val.str).ok
              THEN Str(val.str \o <<"=">> \o LookupEnv(env, val.str).val)
              ELSE val
         ELSE val
    ELSE val

\* one entry of the map form
ResolveEntry(key, val, env) ==
    IF val = Nil
    THEN IF LookupEnv(env, key).ok THEN Str(LookupEnv(env, key).val) ELSE Nil
    ELSE val

\* a resolution of the array form that leaves out the entries that are no
\* strings
IsString(val) == val.kind = "string"
resolveBuildArgsStringsOnly(args, env) ==
    CASE args.form = "array" ->
            [value |-> ArrayArgs([i \in 1..Len(SelectSeq(args.items, IsString)) |->
                                     ResolveItem(SelectSeq(args.items, IsString)[i], env)]),
             ok |-> TRUE]
      [] args.form = "map" ->
            [value |-> MapArgs([key \in DOMAIN args.entries |->
                                   ResolveEntry(key, args.entries[key], env)]),
             ok |-> TRUE]
      [] OTHER -> [value |-> args, ok |-> FALSE]

\* the resolved args and whether args had one of the two forms
resolveBuildArgs(args, env) ==
    CASE args.form = "array" ->
            [value |-> IF Len(args.items) = 0 THEN NilArrayArgs
                       ELSE ArrayArgs([i \in 1..Len(args.items) |->
                                          ResolveItem(args.items[i], env)]),
             ok |-> TRUE]
      [] args.form = "map" ->
            [value |-> MapArgs([key \in DOMAIN args.entries |->
                                   ResolveEntry(key, args.entries[key], env)]),
             ok |-> TRUE]
      [] OTHER -> [value |-> args, ok |-> FALSE]

\* longest array and largest map of the args resolved
MaxArgs == 2

ArgNames == {<<"F">>, <<"G">>}
ArgItems == {Str(<<"F">>), Str(<<"G">>), Str(<<"F", "=", "1">>), Str(<<"G", "=">>), Num}
ArgValues == {Nil, Str(<<"1">>), Str(<<>>)}
ArgsInputs ==
    {ArrayArgs(items) : items \in UNION {[1..n -> ArgItems] : n \in 0..MaxArgs}}
        \cup {MapArgs(entries) :
                 entries \in UNION {[names -> ArgValues] :
                                       names \in {k \in SUBSET ArgNames :
                                                     Cardinality(k) <= MaxArgs}}}
        \cup {OtherArgs}
Environments ==
    UNION {[names -> {<<"b">>, <<>>}] : names \in SUBSET ArgNames}

\* last is the call: its arguments and, once made, its result
NotCalled == [value |-> OtherArgs, ok |-> FALSE]

InitArgs ==
    /\ state = Absent
    /\ registry = [tagged |-> NoManifest, digestHeader |-> TRUE, untagged |-> {}]
    /\ \E args \in ArgsInputs, env \in Environments :
          last = [op |-> "Init", args |-> args, env |-> env, result |-> NotCalled,
                  again |-> NotCalled]

ResolveArgs ==
    /\ last.op = "Init"
    /\ last' = [last EXCEPT !.op = "resolveBuildArgs",
                            !.result = resolveBuildArgs(last.args, last.env)]
    /\ UNCHANGED <<state, registry>>

\* the function applied to its own output, in the same environment
ResolveArgsAgain ==
    /\ last.op = "resolveBuildArgs"
    /\ last.result.ok
    /\ last' = [last EXCEPT !.op = "resolveBuildArgs again",
                            !.again = resolveBuildArgs(last.result.value, last.env)]
    /\ UNCHANGED <<state, registry>>

SpecArgs == InitArgs /\ [][ResolveArgs \/ ResolveArgsAgain]_vars

(***************************************************************************)
(* getAuthConfig on its own: every shape of the auth block against every   *)
(* answer of the sources, and a credential given in each of its forms.     *)
(***************************************************************************)
\* longest username and longest password of the credentials resolved
MaxChars == 2

CredentialChars == {"u", ":", Quote}
Texts == UNION {[1..n -> CredentialChars] : n \in 1..MaxChars}
HasColon(s) == FirstColon(s, 1) # 0

\* a username and a password whose "username:password" is a JSON object
JSONLikeUsername == <<"{", Quote>> \o UsernameKey \o <<Quote>>
JSONLikePassword ==
    <<Quote, "x", Quote, ",", Quote>> \o PasswordKey \o <<Quote, ":", Quote, "y", Quote, "}">>

CredentialPairs ==
    ({u \in Texts : ~HasColon(u)} \X Texts) \cup {<<JSONLikeUsername, JSONLikePassword>>}

\* the text of a JSON string that stands for s
RECURSIVE JSONString(_)
JSONString(s) ==
    IF s = <<>> THEN <<>>
    ELSE (IF s[1] \in {Quote, Backslash} THEN <<Backslash, s[1]>> ELSE <<s[1]>>)
             \o JSONString(Tail(s))

ColonPayload(u, p) == u \o <<":">> \o p
JSONPayload(u, p) ==
    <<"{", Quote>> \o UsernameKey \o <<Quote, ":", Quote>> \o JSONString(u)
        \o <<Quote, ",", Quote>> \o PasswordKey \o <<Quote, ":", Quote>> \o JSONString(p)
        \o <<Quote, "}">>

Block(username, password, aws, google) ==
    [present |-> TRUE, username |-> username, password |-> password,
     aws_secrets_manager |-> aws, google_secret_manager |-> google]
Auth(block, ecr, gar) ==
    [nil |-> FALSE, username_password |-> block, aws_ecr |-> ecr,
     google_artifact_registry |-> gar]

CredentialForms == {"literal", "aws colon", "aws json", "google colon", "google json"}

\* the auth block that gives the credential in the form
FormAuth(form, u, p) ==
    IF form = "literal" THEN Auth(Block(u, p, NullChars, NullChars), FALSE, FALSE)
    ELSE IF form \in {"aws colon", "aws json"}
    THEN Auth(Block(NullChars, NullChars, <<"a", "r", "n">>, NullChars), FALSE, FALSE)
    ELSE Auth(Block(NullChars, NullChars, NullChars, <<"g", "s", "m">>), FALSE, FALSE)

\* the secret the stores hold for the form
FormAnswers(form, u, p) ==
    [source \in Sources |->
        IF form \in {"aws json", "google json"} THEN SourcePayload(JSONPayload(u, p))
        ELSE SourcePayload(ColonPayload(u, p))]

\* every shape of the block: each attribute set or not, each variant
\* present or not
AuthShapes ==
    {AuthNil}
        \cup {Auth(block, ecr, gar) :
                 block \in {NoBlock}
                     \cup {Block(username, password, aws, google) :
                              username \in {NullChars, <<"u">>},
                              password \in {NullChars, <<>>, <<"p">>},
                              aws \in {NullChars, <<"a", "r", "n">>},
                              google \in {NullChars, <<"g", "s", "m">>}},
                 ecr \in BOOLEAN, gar \in BOOLEAN}

SourceAnswers(source) ==
    {SourceFailure, SourceEmpty, SourcePayload(<<"x">>),
     SourcePayload(IF source = "aws_ecr" THEN StdEncoding(<<"u", ":", "p">>)
                   ELSE <<"u", ":", "p">>)}
AnswerShapes == {answers \in [Sources -> UNION {SourceAnswers(source) : source \in Sources}] :
                    \A source \in Sources : answers[source] \in SourceAnswers(source)}

NotResolved == [err |-> FALSE, cfg |-> NoAuthConfig, consulted |-> <<>>]
ResolveCall(auth, answers, form, u, p) ==
    [op |-> "Init", auth |-> auth, answers |-> answers, form |-> form,
     username |-> u, password |-> p, result |-> NotResolved, header |-> <<>>]

InitAuth ==
    /\ state = Absent
    /\ registry = [tagged |-> NoManifest, digestHeader |-> TRUE, untagged |-> {}]
    /\ \/ \E pair \in CredentialPairs, form \in CredentialForms :
             last = ResolveCall(FormAuth(form, pair[1], pair[2]),
                                FormAnswers(form, pair[1], pair[2]), form, pair[1], pair[2])
       \/ \E auth \in AuthShapes, answers \in AnswerShapes :
             last = ResolveCall(auth, answers, "shape", <<>>, <<>>)

ResolveAuth ==
    /\ last.op = "Init"
    /\ LET result == getAuthConfig(last.auth, last.answers) IN
       last' = [last EXCEPT !.op = "getAuthConfig", !.result = result,
                            !.header = GetHTTPAuthHeader(result.cfg)]
    /\ UNCHANGED <<state, registry>>

SpecAuth == InitAuth /\ [][ResolveAuth]_vars

(***************************************************************************)
(* buildDockerImage and its build-context temporary file.  A build fails   *)
(* at one of its steps or at none; its record says what became of the      *)
(* temporary file.                                                         *)
(***************************************************************************)
\* builds in a row
MaxBuilds == 3

BuildExits == {"none", "context", "create", "walk", "tar", "seek", "request", "output"}

NoTempFile == [created |-> FALSE, open |-> FALSE, removed |-> FALSE]
\* os.CreateTemp: the file exists and its descriptor is open
CreateTemp == [created |-> TRUE, open |-> TRUE, removed |-> FALSE]
Close(file) == [file EXCEPT !.open = FALSE]

\* the file and the error returned: a failed walk returns both
prepareBuildContext(exit) ==
    IF exit = "create" THEN [file |-> NoTempFile, returned |-> FALSE, err |-> TRUE]
    ELSE IF exit = "tar" THEN [file |-> Close(CreateTemp), returned |-> FALSE, err |-> TRUE]
    ELSE IF exit = "seek" THEN [file |-> Close(CreateTemp), returned |-> FALSE, err |-> TRUE]
    ELSE [file |-> CreateTemp, returned |-> TRUE, err |-> exit = "walk"]

\* the temporary file when buildDockerImage returns, and its error
buildDockerImage(exit) ==
    LET context == prepareBuildContext(exit) IN
    IF exit = "context" THEN [exit |-> exit, file |-> NoTempFile, err |-> TRUE]
    ELSE IF context.err THEN [exit |-> exit, file |-> context.file, err |-> TRUE]
    ELSE [exit |-> exit, file |-> Close(context.file),
          err |-> exit \in {"request", "output"}]

\* last carries the builds made so far
InitBuild ==
    /\ state = Absent
    /\ registry = [tagged |-> NoManifest, digestHeader |-> TRUE, untagged |-> {}]
    /\ last = [op |-> "Init", builds |-> <<>>]

BuildImage ==
    /\ Len(last.builds) < MaxBuilds
    /\ \E exit \in BuildExits :
          last' = [op |-> "buildDockerImage",
                   builds |-> Append(last.builds, buildDockerImage(exit))]
    /\ UNCHANGED <<state, registry>>

SpecBuild == InitBuild /\ [][BuildImage]_vars

(***************************************************************************)
(* Reference parsing on its own.  A reference is a sequence of tokens: a   *)
(* lower-case component "n", a component with an upper-case letter "N", a  *)
(* number "5", the separators "/", ":" and "@", and a digest "h" (an       *)
(* algorithm, a colon and a hex string).  The grammar is                   *)
(*     reference := name [":" tag] ["@" digest]                            *)
(*     name      := [domain "/"] component {"/" component}                 *)
(*     domain    := component [":" port]                                   *)
(* with lower-case path components; a first component is the domain when   *)
(* it has a port or an upper-case letter.                                  *)
(***************************************************************************)
\* longest reference parsed
MaxTokens == 5

RefTokens == {"n", "N", "5", "/", ":", "@", "h"}
References == UNION {[1..k -> RefTokens] : k \in 1..MaxTokens}

PathComponents == {<<"n">>, <<"5">>}
DomainForms == {<<"N">>} \cup {<<host, ":", "5">> : host \in {"n", "N", "5"}}
TagTokens == {"n", "N", "5"}

\* the k-th smallest element of a set of numbers
Nth(S, k) == CHOOSE i \in S : Cardinality({j \in S : j <= i}) = k

\* the parts of a name between its slashes
NameSegments(name) ==
    LET slashes == {i \in 1..Len(name) : name[i] = "/"}
        count == Cardinality(slashes)
        cut == [k \in 0..(count + 1) |->
                   IF k = 0 THEN 0
                   ELSE IF k = count + 1 THEN Len(name) + 1
                   ELSE Nth(slashes, k)]
    IN [k \in 1..(count + 1) |-> SubSeq(name, cut[k - 1] + 1, cut[k] - 1)]

ValidName(name) ==
    LET segments == NameSegments(name) IN
    /\ segments[1] \in PathComponents
          \/ (Len(segments) > 1 /\ segments[1] \in DomainForms)
    /\ \A k \in 2..Len(segments) : segments[k] \in PathComponents

NoReference == [err |-> TRUE, named |-> FALSE, tag |-> "", digest |-> ""]

\* name [":" tag], with the digest already split off
ParseNamed(ref, digest) ==
    LET tagged == Len(ref) >= 2 /\ ref[Len(ref) - 1] = ":" /\ ref[Len(ref)] \in TagTokens
        name == IF tagged THEN SubSeq(ref, 1, Len(ref) - 2) ELSE ref
    IN IF name # <<>> /\ ValidName(name)
       THEN [err |-> FALSE, named |-> TRUE,
             tag |-> IF tagged THEN ref[Len(ref)] ELSE "", digest |-> digest]
       ELSE NoReference

\* reference.ParseAnyReference: a digest alone is a reference without a name
ParseAnyReferenceTokens(ref) ==
    IF ref = <<"h">> THEN [err |-> FALSE, named |-> FALSE, tag |-> "", digest |-> "h"]
    ELSE IF \E i \in 1..Len(ref) : ref[i] \in {"@", "h"}
    THEN IF /\ Len(ref) >= 3
            /\ ref[Len(ref) - 1] = "@"
            /\ ref[Len(ref)] = "h"
            /\ \A i \in 1..(Len(ref) - 2) : ref[i] \notin {"@", "h"}
         THEN ParseNamed(SubSeq(ref, 1, Len(ref) - 2), "h")
         ELSE NoReference
    ELSE ParseNamed(ref, "")

\* a parse that keeps tag and digest of a reference that has both
ParseReferenceTokensKeepingBoth(ref) ==
    LET parsed == ParseAnyReferenceTokens(ref) IN
    IF parsed.err THEN [err |-> "invalid image URI format", tag |-> "", digest |-> ""]
    ELSE IF ~parsed.named
    THEN [err |-> "invalid image reference format", tag |-> "", digest |-> ""]
    ELSE IF parsed.tag = "" /\ parsed.digest = ""
    THEN [err |-> "image reference must have a tag or digest", tag |-> "", digest |-> ""]
    ELSE [err |-> "", tag |-> parsed.tag, digest |-> parsed.digest]

\* the parse and the type switches of the inspection and of the deletion:
\* NamedTagged is asked first, Canonical second
ParseReferenceTokens(ref) ==
    LET parsed == ParseAnyReferenceTokens(ref) IN
    IF parsed.err THEN [err |-> "invalid image URI format", tag |-> "", digest |-> ""]
    ELSE IF ~parsed.named
    THEN [err |-> "invalid image reference format", tag |-> "", digest |-> ""]
    ELSE IF parsed.tag # "" THEN [err |-> "", tag |-> parsed.tag, digest |-> ""]
    ELSE IF parsed.digest # "" THEN [err |-> "", tag |-> "", digest |-> parsed.digest]
    ELSE [err |-> "image reference must have a tag or digest", tag |-> "", digest |-> ""]

\* the first request of the inspection, made only after the parse
FirstRequest(parts) ==
    IF parts.err # "" THEN <<>>
    ELSE <<Event("GET manifest", IF parts.digest # "" THEN parts.digest ELSE parts.tag, <<>>)>>

\* how the references of the lifecycle are spelt
Spelling(uri) ==
    CASE uri = TagURI    -> <<"n", "/", "n", ":", "n">>
      [] uri = DigestURI -> <<"n", "/", "n", "@", "h">>
      [] uri = BareURI   -> <<"n", "/", "n">>
      [] uri = BadURI    -> <<"n", "/", "N", ":", "n">>

InitRef ==
    /\ state = Absent
    /\ registry = [tagged |-> NoManifest, digestHeader |-> TRUE, untagged |-> {}]
    /\ \E ref \in References :
          last = [op |-> "Init", ref |-> ref,
                  parts |-> [err |-> "", tag |-> "", digest |-> ""], trace |-> <<>>]

ParseRef ==
    /\ last.op = "Init"
    /\ LET parts == ParseReferenceTokens(last.ref) IN
       last' = [last EXCEPT !.op = "ParseReference", !.parts = parts,
                            !.trace = FirstRequest(parts)]
    /\ UNCHANGED <<state, registry>>

SpecRef == InitRef /\ [][ParseRef]_vars

(***************************************************************************)
(* deleteFromDockerRegistry on a tag reference beside another client of    *)
(* the registry.  The GET that resolves the tag and the DELETE are two     *)
(* requests, and the other client may push to the tag between them; the    *)
(* registry then keeps the manifest the tag led to, untagged, or has       *)
(* collected it when the DELETE arrives.  last is the position of the      *)
(* call: what the GET yielded, what was pushed meanwhile, and how the      *)
(* DELETE was answered.                                                    *)
(***************************************************************************)
NotResolvedYet == [err |-> "", digest |-> "", trace |-> <<>>]

RaceCredential == getAuthConfig(state.auth, Answer(NoFault, "source")).cfg

InitRace ==
    /\ \E plan \in {p \in Plans(TagURI) : p.delete_image} :
          state = [plan EXCEPT !.id = plan.image_uri]
    /\ registry \in [tagged : {ManifestOf(d) : d \in Images}, digestHeader : BOOLEAN,
                     untagged : {{}}]
    /\ last = [op |-> "Init", got |-> NotResolvedYet, repushed |-> "", fault |-> NoFault,
               held |-> FALSE, err |-> "", trace |-> <<>>]

\* the GET of the tag
RaceGet ==
    /\ last.op = "Init"
    /\ \E fault \in {f \in DeleteFaults : f.at \in {"none", "manifest"}} :
          LET got == TagDigest(ParseReference(state.image_uri).tag, RaceCredential,
                               registry, fault)
          IN last' = [last EXCEPT !.op = IF got.err = "" THEN "GET" ELSE "done",
                                  !.got = got, !.err = got.err, !.trace = got.trace]
    /\ UNCHANGED <<state, registry>>

\* another client pushes another manifest to the tag
RacePush ==
    /\ last.op = "GET"
    /\ \E d \in Images \ {registry.tagged.digest} :
          /\ registry' \in {Pushed(registry, ManifestOf(d)),
                            PushedKeeping(registry, ManifestOf(d))}
          /\ last' = [last EXCEPT !.op = "pushed", !.repushed = d]
    /\ UNCHANGED state

\* the DELETE
RaceDelete ==
    /\ last.op \in {"GET", "pushed"}
    /\ \E fault \in {f \in DeleteFaults : f.at \in {"none", "delete"}} :
          LET result == DeleteResolved(last.got, RaceCredential, registry, fault)
          IN /\ registry' = result.registry
             /\ last' = [last EXCEPT !.op = "done", !.fault = fault,
                                     !.held = Lookup(registry, last.got.digest) # NoManifest,
                                     !.err = result.err, !.trace = result.trace]
    /\ UNCHANGED state

SpecRace == InitRace /\ [][RaceGet \/ RacePush \/ RaceDelete]_vars

(***************************************************************************)
(* Properties.                                                             *)
(***************************************************************************)
\* the manifest the registry holds for an image URI, and the label map of
\* its image (of the selected manifest for an index), empty for none
ImageAt(reg, uri) ==
    LET ref == ParseReference(uri)
    IN Lookup(reg, IF ref.digest # "" THEN ref.digest ELSE ref.tag)

RegistryLabels(reg, uri) ==
    LET doc == ImageAt(reg, uri)
        image == IF IsIndex(doc) THEN Lookup(reg, SelectManifest(doc.manifests, 1)) ELSE doc
        labels == ConfigLabels(image.config)
    IN IF labels.null THEN EmptyMap ELSE labels.elems

\* C1: whenever the inspection of a Read returns an error, whichever it is,
\* the resource is removed from the tracked state and the Read reports no
\* error diagnostic.
C1_ReadErrorRemovesResource ==
    (last.op = "Read" /\ last.err # "") => (~state.present /\ last.errors = 0)

C1_Witness ==
    /\ last.op = "Read"
    /\ last.err = "failed to get authentication configuration"
    /\ ~state.present
    /\ last.errors = 0

\* C2: in every tracked (Present) state the id is a generated UUID, never
\* the image URI.
C2_IdIsGeneratedUUID ==
    state.present => (state.id \in UUIDs /\ state.id # state.image_uri)

C2_CreatedIdIsImageURI ==
    last.op = "Create" /\ state.present /\ state.id = state.image_uri

\* C3: a Delete of a resource whose delete_image is false makes no registry
\* request and resolves no credential, and leaves the registry as it was.
C3_DeleteKeepsImage ==
    [][(last'.op = "Delete" /\ state.present /\ ~state.delete_image)
          => (last'.trace = <<>> /\ registry' = registry)]_vars

C3_Witness ==
    /\ last.op = "Delete"
    /\ last.err = ""
    /\ last.trace = <<>>
    /\ ~state.present
    /\ registry.tagged # NoManifest

\* C4: a Delete whose remote deletion fails, in whichever way, adds a warning
\* and no error, and the resource record ends Absent.
C4_DeleteFailureIsWarning ==
    (last.op = "Delete" /\ last.err # "")
        => (last.warnings = 1 /\ last.errors = 0 /\ ~state.present)

C4_Witness ==
    /\ last.op = "Delete"
    /\ last.err = "failed to delete image, status"
    /\ last.warnings = 1
    /\ ~state.present
    /\ registry.tagged # NoManifest

\* C5: a Create or Update that fails (build specification, build, credential
\* or push) reports an error and leaves the tracked state exactly as it was.
C5_FailedApplyWritesNothing ==
    [][(last'.op \in {"Create", "Update"} /\ last'.err # "")
          => (last'.errors > 0 /\ state' = state)]_vars

C5_Witness ==
    /\ last.op = "Update"
    /\ last.err = "failed to push Docker image"
    /\ last.errors = 1
    /\ state.present

\* C6: when build and push succeeded and the digest fetch after them failed,
\* the Create or Update reports no error, the resource is Present and
\* sha256_digest is still unknown.
C6_DigestFetchFailureNotFatal ==
    (last.op \in {"Create", "Update"} /\ last.fetchErr \notin {"", "-"})
        => /\ last.err = ""
           /\ last.errors = 0
           /\ state.present
           /\ state.sha256_digest = UnknownString

C6_Witness ==
    /\ last.op = "Create"
    /\ last.fetchErr = "failed to get manifest"
    /\ state.present
    /\ state.sha256_digest = UnknownString
    /\ registry.tagged # NoManifest

PreSelectionErrors ==
    {"invalid image URI format", "image reference must have a tag or digest",
     "failed to get authentication configuration", "failed to get manifest",
     "image not found", "authentication failed for registry",
     "failed to get manifest, status", "failed to decode manifest"}

C8_FirstNonAttestationSelected ==
    (last.op = "Read" /\ IsIndex(registry.tagged) /\ last.err \notin PreSelectionErrors)
        => LET entries == registry.tagged.manifests
               NonAttestation ==
                   {i \in 1..Len(entries) : entries[i].refType # AttestationType}
               first == CHOOSE i \in NonAttestation : \A j \in NonAttestation : i <= j
           IN IF NonAttestation = {} \/ entries[first].digest = ""
              THEN /\ last.err = "no suitable manifest found in OCI Image Index"
                   /\ Len(last.trace) = 2
              ELSE /\ Len(last.trace) >= 3
                   /\ last.trace[3].kind = "GET manifest"
                   /\ last.trace[3].target = entries[first].digest

C8_Witness ==
    /\ last.op = "Read"
    /\ last.err = ""
    /\ IsIndex(registry.tagged)
    /\ Len(registry.tagged.manifests) >= 2
    /\ registry.tagged.manifests[1].refType = AttestationType
    /\ registry.tagged.manifests[2].refType # AttestationType
    /\ last.trace[3].target = registry.tagged.manifests[2].digest

\* C9 as stated: a successful Read right after a successful Create leaves the
\* resource Present with the labels and the sha256_digest the Create wrote.
C9_RoundTripAsStated ==
    [][(last.op = "Create" /\ last.err = "" /\ last'.op = "Read" /\ last'.err = "")
          => /\ state'.present
             /\ state'.labels = state.labels
             /\ state'.sha256_digest = state.sha256_digest]_vars

\* C9: when moreover the Create's own digest fetch succeeded and the image
\* pushed carries exactly the declared labels, a successful Read right after
\* the Create leaves the resource Present with the labels and the
\* sha256_digest the Create wrote.
C9_RoundTrip ==
    [][(/\ last.op = "Create" /\ last.err = "" /\ last.fetchErr = ""
        /\ registry.tagged.digest = ImageWithLabels(extractLabels(state))
        /\ last'.op = "Read" /\ last'.err = "")
          => /\ state'.present
             /\ state'.labels = state.labels
             /\ state'.sha256_digest = state.sha256_digest]_vars

C9_Witness ==
    /\ last.op = "Read"
    /\ last.err = ""
    /\ state.id = TagURI
    /\ state.labels = MapValue(L1)
    /\ registry.tagged.digest = "sha256:p1"
    /\ registry.digestHeader
    /\ state.sha256_digest = "sha256:p1"

Kinds(tr) == {tr[i].kind : i \in 1..Len(tr)}

\* C11: an Update whose plan differs from the prior state in the build
\* attribute alone, while the registry holds the image with the tracked
\* labels, performs no build and no push.
C11_BuildChangeAloneNoRebuild ==
    [][(/\ last'.op = "Update"
        /\ state'.build # state.build
        /\ state'.image_uri = state.image_uri
        /\ state'.labels = state.labels
        /\ state'.triggers = state.triggers
        /\ state'.auth = state.auth
        /\ state'.delete_image = state.delete_image
        /\ ImageAt(registry, state.image_uri) # NoManifest
        /\ RegistryLabels(registry, state.image_uri) = extractLabels(state))
          => Kinds(last'.trace) \cap {"build", "push"} = {}]_vars

C11_BuildChangeRebuilds ==
    /\ last.op = "Update"
    /\ last.err = ""
    /\ state.build = Build2
    /\ {"build", "push"} \subseteq Kinds(last.trace)

\* C12: every Update starts the build and push sequence whatever differs
\* between plan and prior state: it parses the build specification, builds
\* unless the specification does not parse, and when it succeeds it has
\* pushed the planned image URI.
C12_UpdateAlwaysBuilds ==
    last.op = "Update"
        => /\ Len(last.trace) >= 1
           /\ last.trace[1].kind = "parse"
           /\ last.err # "failed to parse build specification"
                 => (Len(last.trace) >= 2 /\ last.trace[2].kind = "build")
           /\ last.err = ""
                 => \E i \in 1..Len(last.trace) :
                       /\ last.trace[i].kind = "push"
                       /\ last.trace[i].target = state.image_uri

C12_Witness ==
    /\ last.op = "Update"
    /\ last.err = ""
    /\ state.triggers = NullMap
    /\ state.labels = MapValue(L1)
    /\ "push" \in Kinds(last.trace)

\* C13: an Update or a Read that leaves the resource Present leaves its id
\* as it was.
C13_IdStable ==
    [][(last'.op \in {"Update", "Read"} /\ state.present /\ state'.present)
          => state'.id = state.id]_vars

C13_Witness ==
    /\ last.op = "Update"
    /\ last.err = ""
    /\ state.id \in UUIDs
    /\ state.build = Build1

\* C14: a successful Read changes no attribute of the record other than
\* labels and sha256_digest.
C14_ReadFrame ==
    [][(last'.op = "Read" /\ last'.err = "")
          => /\ state'.present
             /\ state'.id = state.id
             /\ state'.image_uri = state.image_uri
             /\ state'.build = state.build
             /\ state'.triggers = state.triggers
             /\ state'.auth = state.auth
             /\ state'.delete_image = state.delete_image]_vars

C14_Witness ==
    /\ last.op = "Read"
    /\ last.err = ""
    /\ state.id \in UUIDs
    /\ state.build = Build1
    /\ state.delete_image
    /\ state.auth = AuthSecret
    /\ state.labels = MapValue(L3)

\* C15: resolveBuildArgs keeps the form, the length and the keys of args; a
\* bare key of the array form becomes KEY=value when KEY is set and stays as
\* it is when not; a null value of the map form becomes the value when KEY
\* is set and stays null when not; every other entry is unchanged; and an
\* array or a map is always resolved, whatever is set.
C15_BuildArgsResolved ==
    last.op = "resolveBuildArgs"
        => LET args == last.args
               env == last.env
               out == last.result.value
           IN /\ args.form \in {"array", "map"} => last.result.ok /\ out.form = args.form
              /\ args.form = "array" =>
                    /\ Len(out.items) = Len(args.items)
                    /\ \A i \in 1..Len(args.items) :
                          LET item == args.items[i]
                              bare == item.kind = "string"
                                         /\ \A j \in 1..Len(item.str) : item.str[j] # "="
                          IN /\ (bare /\ item.str \in DOMAIN env)
                                   => out.items[i] = Str(item.str \o <<"=">> \o env[item.str])
                             /\ (bare /\ item.str \notin DOMAIN env) => out.items[i] = item
                             /\ ~bare => out.items[i] = item
              /\ args.form = "map" =>
                    /\ DOMAIN out.entries = DOMAIN args.entries
                    /\ \A key \in DOMAIN args.entries :
                          LET val == args.entries[key] IN
                          /\ (val = Nil /\ key \in DOMAIN env) => out.entries[key] = Str(env[key])
                          /\ (val = Nil /\ key \notin DOMAIN env) => out.entries[key] = Nil
                          /\ val # Nil => out.entries[key] = val

C15_Witness ==
    /\ last.op = "resolveBuildArgs"
    /\ last.args = ArrayArgs(<<Str(<<"F">>), Str(<<"G">>)>>)
    /\ DOMAIN last.env = {<<"F">>}
    /\ last.env[<<"F">>] = <<"b">>
    /\ last.result.value.items = <<Str(<<"F", "=", "b">>), Str(<<"G">>)>>

\* C16 as stated: for non-empty u and p, u without ':', the literal pair,
\* the payload u:p and the JSON payload of u and p resolve to the credential
\* (u, p), and its header is "Basic " and the base64 of u:p.
C16_FormsAgreeAsStated ==
    (last.op = "getAuthConfig" /\ last.form \in CredentialForms)
        => /\ ~last.result.err
           /\ last.result.cfg = AuthConfig(last.username, last.password)
           /\ last.header = <<"Basic ", StdEncoding(last.username \o <<":">> \o last.password)>>

\* C16: the same, for a payload u:p that is not itself a JSON object with a
\* username and a password; and the payload u:p is split at its first colon.
C16_FormsAgree ==
    (/\ last.op = "getAuthConfig"
     /\ last.form \in CredentialForms
     /\ last.form \in {"aws colon", "google colon"}
           => LET object == Unmarshal(ColonPayload(last.username, last.password))
              IN object.err \/ object.Username = <<>> \/ object.Password = <<>>)
        => /\ ~last.result.err
           /\ last.result.cfg = AuthConfig(last.username, last.password)
           /\ last.header = <<"Basic ", StdEncoding(last.username \o <<":">> \o last.password)>>

C16_Witness ==
    /\ last.op = "getAuthConfig"
    /\ last.form = "aws colon"
    /\ last.username = <<"u">>
    /\ last.password = <<":", "u">>
    /\ last.result.cfg = AuthConfig(<<"u">>, <<":", "u">>)

\* C18: a resolution calls at most one source, the one of the first variant
\* in the order literal pair, AWS Secrets Manager, Google Secret Manager
\* (inside a username_password block), then AWS ECR, then Google Artifact
\* Registry; its result is made of that source's answer alone, and an error
\* of a present username_password block is the result whatever the other
\* variants hold.
C18_OneVariantByPrecedence ==
    last.op = "getAuthConfig"
        => LET auth == last.auth
               block == auth.username_password
               result == last.result
               literal == /\ block.username \notin {NullChars, <<>>}
                          /\ block.password \notin {NullChars, <<>>}
               first ==
                   IF auth.nil THEN <<>>
                   ELSE IF block.present
                   THEN IF literal THEN <<>>
                        ELSE IF block.aws_secrets_manager \notin {NullChars, <<>>}
                        THEN <<"aws_secrets_manager">>
                        ELSE IF block.google_secret_manager \notin {NullChars, <<>>}
                        THEN <<"google_secret_manager">>
                        ELSE <<>>
                   ELSE IF auth.aws_ecr THEN <<"aws_ecr">>
                   ELSE IF auth.google_artifact_registry THEN <<"google_artifact_registry">>
                   ELSE <<>>
           IN /\ Len(result.consulted) <= 1
              /\ result.consulted = first
              /\ (~auth.nil /\ block.present /\ literal)
                    => result.cfg = AuthConfig(block.username, block.password)
              /\ (~auth.nil /\ block.present /\ ~literal /\ first = <<>>) => result.err
              /\ (first # <<>> /\ last.answers[first[1]].kind = "failure") => result.err
              /\ (first # <<>> /\ first[1] # "google_artifact_registry"
                     /\ last.answers[first[1]].payload = <<"x">>) => result.err

C18_Witness ==
    /\ last.op = "getAuthConfig"
    /\ last.auth.username_password.present
    /\ last.auth.username_password.username = <<"u">>
    /\ last.auth.username_password.password = <<>>
    /\ last.auth.username_password.aws_secrets_manager # NullChars
    /\ last.auth.username_password.google_secret_manager # NullChars
    /\ last.auth.aws_ecr
    /\ last.answers["aws_secrets_manager"].kind = "failure"
    /\ last.answers["google_secret_manager"].payload = <<"u", ":", "p">>
    /\ last.answers["aws_ecr"].kind = "payload"
    /\ last.result.err
    /\ last.result.consulted = <<"aws_secrets_manager">>

\* what a source answers is no credential: the call failed, returned no
\* data, or returned a text that neither form reads
NoCredential(source, answer) ==
    \/ answer.kind = "failure"
    \/ /\ source \in {"aws_secrets_manager", "google_secret_manager"}
       /\ \A i \in 1..Len(answer.payload) : answer.payload[i] # ":"
    \/ /\ source = "aws_ecr"
       /\ answer.kind = "empty" \/ answer.payload = <<"x">>

\* every resolution whose source gives no credential is an error without a
\* credential
FailedSourceIsError ==
    \A auth \in AuthShapes, answers \in AnswerShapes :
        LET result == getAuthConfig(auth, answers) IN
        (result.consulted # <<>> /\ NoCredential(result.consulted[1], answers[result.consulted[1]]))
            => result.err /\ result.cfg.nil

\* C17: a resolution whose source fails or returns no credential is an
\* error, and in an operation nothing follows a resolution that failed: no
\* push, no GET, no DELETE; the operation's helper reports the error.
C17_NoAnonymousAfterFailedResolution ==
    /\ FailedSourceIsError
    /\ last.op \in {"Create", "Read", "Update", "Delete"}
          => \A i \in 1..Len(last.trace) :
                last.trace[i] = ResolveFailed
                    => /\ i = Len(last.trace)
                       /\ last.err # "" \/ last.fetchErr \notin {"", "-"}

C17_Witness ==
    /\ last.op = "Update"
    /\ Len(last.trace) = 3
    /\ last.trace[3] = ResolveFailed
    /\ last.errors > 0

\* C19: after any number of builds, whatever the exit of each, no temporary
\* file of a finished build is left on disk and none is left open.
C19_TempFileClosedAndRemoved ==
    last.op = "buildDockerImage"
        => \A i \in 1..Len(last.builds) :
              last.builds[i].file.created
                  => ~last.builds[i].file.open /\ last.builds[i].file.removed

\* a build that succeeded and left its temporary file on disk, after one
\* whose walk failed and left it open
C19_TempFileLeft ==
    /\ last.op = "buildDockerImage"
    /\ Len(last.builds) = 2
    /\ last.builds[1].exit = "walk"
    /\ last.builds[1].file.open
    /\ last.builds[2].exit = "none"
    /\ ~last.builds[2].err
    /\ last.builds[2].file.created
    /\ ~last.builds[2].file.removed

\* the errors of an HTTP call that got no response: the transport failed or
\* the context was cancelled while the call was in flight
AbortedCall ==
    {"failed to get manifest", "failed to get actual manifest", "failed to get config",
     "failed to execute DELETE request"}

\* C20: an operation one of whose HTTP calls was aborted by the cancellation
\* of the context reports an error diagnostic and changes no state.
C20_CancellationIsError ==
    [][(/\ last'.op \in {"Create", "Read", "Update", "Delete"}
        /\ last'.err \in AbortedCall \/ last'.fetchErr \in AbortedCall)
           => (last'.errors > 0 /\ state' = state)]_vars

\* a Read whose manifest GET was aborted: the record is removed and no error
\* is reported
C20_AbortedReadRemoves ==
    /\ last.op = "Read"
    /\ last.err = "failed to get manifest"
    /\ Len(last.trace) = 2
    /\ ~state.present
    /\ last.errors = 0
    /\ last.warnings = 0

TableAgrees ==
    \A uri \in {TagURI, DigestURI, BareURI, BadURI} :
        LET table == ParseReference(uri)
            parts == ParseReferenceTokens(Spelling(uri))
        IN /\ table.err = parts.err
           /\ (table.tag = "") = (parts.tag = "")
           /\ (table.digest = "") = (parts.digest = "")

\* C22: a reference that parses gives a tag or a digest and never both; a
\* name followed by ":" and a tag gives the tag, a name followed by "@" and
\* a digest gives the digest; a name alone fails; and a reference that fails
\* is followed by no request.
C22_ExactlyOneOfTagAndDigest ==
    /\ TableAgrees
    /\ last.op = "ParseReference"
          => LET ref == last.ref
                 parts == last.parts
                 separators == {i \in 1..Len(ref) : ref[i] \in {":", "@"}}
                 slashes == {i \in 1..Len(ref) : ref[i] = "/"}
                 afterName == {i \in separators : \A j \in slashes : j < i}
             IN /\ parts.err = "" => (parts.tag # "") # (parts.digest # "")
                /\ parts.err # "" => (parts.tag = "" /\ parts.digest = "")
                /\ (parts.err = "" /\ parts.tag # "")
                      => \E i \in afterName : ref[i] = ":" /\ ref[i + 1] = parts.tag
                /\ (parts.err = "" /\ parts.digest # "")
                      => ref[Len(ref) - 1] = "@" /\ ref[Len(ref)] = parts.digest
                /\ afterName = {} => parts.err # ""
                /\ \A name \in {<<"n">>, <<"n", "/", "n">>, <<"N", "/", "n">>,
                                 <<"n", ":", "5", "/", "n">>}, tag \in {"n", "N", "5"} :
                      /\ ref = name \o <<":", tag>>
                            => parts = [err |-> "", tag |-> tag, digest |-> ""]
                      /\ ref = name \o <<"@", "h">>
                            => parts = [err |-> "", tag |-> "", digest |-> "h"]
                      /\ ref = name \o <<":", tag, "@", "h">>
                            => parts = [err |-> "", tag |-> tag, digest |-> ""]
                      /\ ref = name => parts.err = "image reference must have a tag or digest"
                /\ parts.err # "" => last.trace = <<>>
                /\ parts.err = "" => Len(last.trace) = 1

C22_Witness ==
    /\ last.op = "ParseReference"
    /\ last.ref = <<"n", ":", "5", "/", "n">>
    /\ last.parts.err = "image reference must have a tag or digest"
    /\ last.trace = <<>>

\* C23: in a Create or an Update the credential resolution comes before the
\* build, and after a failed resolution no build has run.
C23_ResolveBeforeBuild ==
    last.op \in {"Create", "Update"}
        => \A i \in 1..Len(last.trace) :
              last.trace[i].kind = "build"
                  => \E j \in 1..(i - 1) :
                        last.trace[j].kind = "resolve" /\ last.trace[j] # ResolveFailed

\* a Create whose build ran and whose credential resolution failed after it
C23_ResolveFailedAfterBuild ==
    /\ last.op = "Create"
    /\ last.errors > 0
    /\ Len(last.trace) = 3
    /\ last.trace[2].kind = "build"
    /\ last.trace[3] = ResolveFailed
    /\ ~state.present

\* C24: in a Create or an Update the steps are parse, build, push, digest
\* fetch in this order; a push comes only after a parse and a build that
\* succeeded; nothing follows a push that did not succeed; and the state is
\* written only when the push succeeded.
C24_StepsInOrder ==
    last.op \in {"Create", "Update"}
        => LET tr == last.trace
               pushes == {i \in 1..Len(tr) : tr[i].kind = "push"}
           IN /\ Len(tr) >= 1 /\ tr[1].kind = "parse"
              /\ Len(tr) >= 2 => tr[2].kind = "build"
              /\ \A i \in pushes :
                    /\ i > 2
                    /\ \A j \in 1..Len(tr) : tr[j].kind \in {"GET manifest", "GET blob"} => j > i
              /\ \A i \in 1..Len(tr) : tr[i] = PushRefused => i = Len(tr) /\ last.errors > 0
              /\ last.errors = 0 => (pushes # {} /\ \A i \in 1..Len(tr) : tr[i] # PushRefused)

\* a Create whose push the registry refused: the digest fetch ran, found no
\* image, and the record was written
C24_RefusedPushIsWritten ==
    /\ last.op = "Create"
    /\ \E i \in 1..Len(last.trace) :
          /\ last.trace[i] = PushRefused
          /\ i < Len(last.trace)
    /\ last.errors = 0
    /\ last.fetchErr = "image not found"
    /\ state.present
    /\ registry.tagged = NoManifest

\* C25: a successful Read leaves the tracked labels equal to the label map
\* of the image in the registry when that map is not empty, and leaves them
\* as they were when it is empty.
C25_ReadLabels ==
    [][(state.present /\ last'.op = "Read" /\ last'.err = "")
          => /\ state'.present
             /\ IF RegistryLabels(registry, state.image_uri) # EmptyMap
                THEN state'.labels = MapValue(RegistryLabels(registry, state.image_uri))
                ELSE state'.labels = state.labels]_vars

\* a Read that dropped the declared key k1 and took the key k9 of the
\* registry
C25_Witness ==
    /\ last.op = "Read"
    /\ last.err = ""
    /\ state.build = Build1
    /\ state.labels = MapValue(L9)
    /\ RegistryLabels(registry, state.image_uri) = L9

\* a Read of an image without labels that kept the tracked labels
C25_WitnessEmpty ==
    /\ last.op = "Read"
    /\ last.err = ""
    /\ state.labels = MapValue(L1)
    /\ RegistryLabels(registry, state.image_uri) = EmptyMap

\* the HTTP requests of a trace, in the order sent
IsRequest(e) == e.kind \in {"GET manifest", "GET blob", "DELETE manifest"}
Requests(tr) == SelectSeq(tr, IsRequest)

\* the faults of the two requests of a deletion
RequestFaults == {f \in DeleteFaults : f.at \in {"none", "manifest", "delete"}}

\* what the claim says of the response to the DELETE
DeleteVerdict(status, err) ==
    IF status \in {"200", "202", "body"} THEN err = ""
    ELSE IF status = "401" THEN err = "authentication failed for registry"
    ELSE err \notin {"", "authentication failed for registry"}

\* the deletion of a digest reference: the DELETE on that digest and nothing
\* else
DigestDeletion(ref, fault, result) ==
    LET reqs == Requests(result.trace)
    IN /\ Len(reqs) = 1
       /\ reqs[1].kind = "DELETE manifest"
       /\ reqs[1].target = ref.digest
       /\ DeleteVerdict(IF fault.at = "delete" THEN fault.status
                        ELSE IF Lookup(registry, ref.digest) # NoManifest THEN "202" ELSE "404",
                        result.err)

\* the deletion of a tag reference: the GET on the tag, then the DELETE on
\* the digest the GET yielded, if it answered 200 and yielded one
TagDeletion(ref, fault, result) ==
    LET reqs == Requests(result.trace)
        held == Lookup(registry, ref.tag)
        status == Status(fault, "manifest", held # NoManifest)
        yielded == IF registry.digestHeader /\ held.digest # "" THEN held.digest
                   ELSE IF status = "body" THEN ""
                   ELSE held.config
    IN /\ Len(reqs) \in {1, 2}
       /\ reqs[1].kind = "GET manifest"
       /\ reqs[1].target = ref.tag
       /\ Len(reqs) = 2 <=> (status \in {"200", "body"} /\ yielded # "")
       /\ Len(reqs) = 1 => result.err # "" /\ result.registry = registry
       /\ Len(reqs) = 2 =>
             /\ reqs[2].kind = "DELETE manifest"
             /\ reqs[2].target = yielded
             /\ reqs[2].target # ref.tag
             /\ DeleteVerdict(IF fault.at = "delete" THEN fault.status
                              ELSE IF Lookup(registry, yielded) # NoManifest THEN "202" ELSE "404",
                              result.err)

\* C26: from every state of a tracked image whose reference parses, and for
\* every outcome of its requests, the deletion of a digest reference sends
\* exactly the DELETE on that digest, the deletion of a tag reference sends
\* the GET on the tag and then, only after a 200 that yielded a digest, the
\* DELETE on that digest; status 200 or 202 of the DELETE is success, 401 the
\* authentication error, any other an error.
C26_DeleteProtocol ==
    (state.present /\ ParseReference(state.image_uri).err = "")
        => \A fault \in RequestFaults :
              LET ref == ParseReference(state.image_uri)
                  cfg == getAuthConfig(state.auth, Answer(NoFault, "source")).cfg
                  result == deleteFromDockerRegistry(ref, cfg, registry, fault)
              IN IF ref.digest # "" THEN DigestDeletion(ref, fault, result)
                 ELSE TagDeletion(ref, fault, result)

\* a Delete of a tag reference that resolved the tag and deleted the digest
C26_Witness ==
    /\ last.op = "Delete"
    /\ last.err = ""
    /\ Len(Requests(last.trace)) = 2
    /\ Requests(last.trace)[1] = Event("GET manifest", "v1", Requests(last.trace)[1].auth)
    /\ Requests(last.trace)[2].kind = "DELETE manifest"
    /\ Requests(last.trace)[2].target = "sha256:p1"
    /\ registry.tagged = NoManifest
    /\ ~state.present

\* the error the claim names for the status of a manifest response; generic
\* is the error of the request that carries the status code
ManifestVerdict(status, err, generic) ==
    IF status = "404" THEN err = "image not found"
    ELSE IF status = "401" THEN err = "authentication failed for registry"
    ELSE err = generic

\* C27: from every state of a tracked image whose reference parses, a
\* top-level manifest GET and an inner manifest GET of an index that are
\* answered with a status other than 200 yield "image not found" for 404,
\* the authentication error for 401 and the error with the status code for
\* any other status, and the request so answered is the last one sent.
C27_ManifestStatuses ==
    (state.present /\ ParseReference(state.image_uri).err = "")
        => \A fault \in {f \in FetchFaults : f.at \in {"none", "manifest", "inner"}} :
              LET fetch == getImageInfoFromRegistry(state, registry, Answer(NoFault, "source"), fault)
                  reqs == Requests(fetch.trace)
                  ref == ParseReference(state.image_uri)
                  top == Lookup(registry, IF ref.digest # "" THEN ref.digest ELSE ref.tag)
                  status == Status(fault, "manifest", top # NoManifest)
                  inner == fault.at = "inner" /\ IsIndex(top)
                              /\ SelectManifest(top.manifests, 1) # ""
              IN /\ status \in {"401", "404", "500"}
                    => /\ Len(reqs) = 1
                       /\ ManifestVerdict(status, fetch.err, "failed to get manifest, status")
                 /\ (inner /\ fault.status \in {"401", "404", "500"})
                    => /\ Len(reqs) = 2
                       /\ ManifestVerdict(fault.status, fetch.err,
                                          "failed to get actual manifest, status")

\* a Read of an index whose inner manifest GET was answered with a status
\* other than 200: whichever status it was, the error is the one with the
\* status code
C27_InnerStatusIsGeneric ==
    /\ last.op = "Read"
    /\ last.err = "failed to get actual manifest, status"
    /\ Len(Requests(last.trace)) = 2
    /\ ~state.present

\* the Authorization header the claim names for a credential: none for nil,
\* Basic with the base64 of username:password otherwise
BasicHeader(cfg) ==
    IF cfg.nil THEN <<>>
    ELSE <<"Basic ", StdEncoding(cfg.Username \o <<":">> \o cfg.Password)>>

AllCarry(tr, header) ==
    \A i \in 1..Len(Requests(tr)) : Requests(tr)[i].auth = header

\* C28: from every state of a tracked image whose reference parses, and for
\* every outcome of the credential source and of the requests, every request
\* of one inspection and every request of one deletion carries the Basic
\* header of the resolved credential, and carries none when the credential
\* is nil.
C28_SameAuthorization ==
    (state.present /\ ParseReference(state.image_uri).err = "")
        => \A fault \in Touching(FetchFaults \cup DeleteFaults, state.auth) :
              LET auth == getAuthConfig(state.auth, Answer(fault, "source"))
                  fetch == getImageInfoFromRegistry(state, registry, Answer(fault, "source"), fault)
                  deletion == deleteImageFromRegistry(state, registry, fault)
              IN /\ auth.err => (Requests(fetch.trace) = <<>> /\ Requests(deletion.trace) = <<>>)
                 /\ ~auth.err => /\ AllCarry(fetch.trace, BasicHeader(auth.cfg))
                                 /\ AllCarry(deletion.trace, BasicHeader(auth.cfg))
                                 /\ auth.cfg.nil = state.auth.nil
                                 /\ ~auth.cfg.nil => BasicHeader(auth.cfg) # <<>>

\* a Read of an image index with a credential: the top-level manifest GET,
\* the inner manifest GET and the config blob GET carry the same Basic header
C28_Witness ==
    /\ last.op = "Read"
    /\ last.err = ""
    /\ Len(Requests(last.trace)) = 3
    /\ Requests(last.trace)[3].kind = "GET blob"
    /\ Requests(last.trace)[1].auth # <<>>
    /\ AllCarry(last.trace, Requests(last.trace)[1].auth)
    /\ ~state.auth.nil

\* the name of an entry of the array form: the text before its first "="
RECURSIVE NameEnd(_, _)
NameEnd(str, i) ==
    IF i > Len(str) \/ str[i] = "=" THEN i - 1 ELSE NameEnd(str, i + 1)
EntryName(val) ==
    IF val.kind = "string" THEN SubSeq(val.str, 1, NameEnd(val.str, 1)) ELSE <<>>

\* C29: resolveBuildArgs returns, for the array form, as many entries as it
\* was given, entry by entry of the same kind and name, and for the map form
\* the same keys; applied to its own output in the same environment it
\* returns that output.
C29_ShapeAndIdempotence ==
    last.op = "resolveBuildArgs again"
        => LET args == last.args
               out == last.result.value
           IN /\ out.form = args.form
              /\ args.form = "array" =>
                    /\ Len(out.items) = Len(args.items)
                    /\ \A i \in 1..Len(args.items) :
                          /\ out.items[i].kind = args.items[i].kind
                          /\ EntryName(out.items[i]) = EntryName(args.items[i])
              /\ args.form = "map" => DOMAIN out.entries = DOMAIN args.entries
              /\ last.again.ok
              /\ last.again.value = out

\* a second application to an array whose bare key was resolved by the first
C29_Witness ==
    /\ last.op = "resolveBuildArgs again"
    /\ last.args = ArrayArgs(<<Num, Str(<<"F">>)>>)
    /\ DOMAIN last.env = {<<"F">>}
    /\ last.result.value.items = <<Num, Str(<<"F", "=">> \o last.env[<<"F">>])>>
    /\ last.again.value = last.result.value

\* the registry accepted the DELETE: it answered 200, or it held the
\* manifest and answered 202
DeleteAccepted ==
    IF last.fault.at = "delete" THEN last.fault.status = "body" ELSE last.held

\* C30: when another client pushed another manifest to the tag between the
\* GET and the DELETE of a deletion by tag, the DELETE addresses the digest
\* the GET yielded, the manifest pushed meanwhile is still there and the tag
\* leads to it, and the deletion reports success whenever the registry
\* accepted the DELETE, which then removed the manifest the GET had found.
C30_DeleteIsNotAtomic ==
    (last.op = "done" /\ last.repushed # "")
        => /\ last.trace[Len(last.trace)] =
                 Event("DELETE manifest", last.got.digest, GetHTTPAuthHeader(RaceCredential))
           /\ last.got.digest # last.repushed
           /\ registry.tagged = ManifestOf(last.repushed)
           /\ Lookup(registry, ParseReference(state.image_uri).tag) = ManifestOf(last.repushed)
           /\ DeleteAccepted => last.err = ""
           /\ (DeleteAccepted /\ last.held) => Lookup(registry, last.got.digest) = NoManifest

\* a deletion that reported success after the tag was pushed again: the
\* manifest the GET had found, kept untagged by the registry, is gone and
\* the tag leads to the manifest pushed meanwhile
C30_Witness ==
    /\ last.op = "done"
    /\ last.repushed = "sha256:p9"
    /\ last.got.digest = "sha256:p1"
    /\ last.fault = NoFault
    /\ last.held
    /\ last.err = ""
    /\ registry.tagged.digest = "sha256:p9"
    /\ registry.untagged = {}

====
